---- MODULE Spec2Model ----
(***************************************************************************)
(* Model of src/services/pathService.ts (PathService.cwd and the helpers   *)
(* it chains).  Paths are sequences of characters so that the code's       *)
(* String.startsWith, path.dirname and path.join are computed as the code  *)
(* computes them.  Every promise callback of the chain is one action.      *)
(***************************************************************************)
EXTENDS Naturals, Sequences, FiniteSets, TLC

VARIABLES
    files,        \* the Cargo.toml paths that exist on disk (what fs.access sees)
    activeDoc,    \* vscode.window.activeTextEditor.document.fileName, None when no editor
    previousCwd,  \* PathService.previousCwd, None when undefined
    calls,        \* one record per PathService.cwd() invocation slot
    rustc         \* the latest getRustcSysroot() call: its process and its promise

vars == <<files, activeDoc, previousCwd, calls, rustc>>

----------------------------------------------------------------------------
(* Bounds *)

MaxDepth == 2
MaxOutput == 3

(* Paths *)

None == <<>>
CargoToml == <<"Cargo.toml">>
FsRoot == <<"/">>
rootPath == <<"/", "w">>
SiblingPath == <<"/", "w", "x">>

StartsWith(s, p) == Len(p) <= Len(s) /\ SubSeq(s, 1, Len(p)) = p

LastSep(p) == CHOOSE i \in 1..Len(p) : p[i] = "/" /\ \A j \in (i+1)..Len(p) : p[j] # "/"

Dirname(p) == IF LastSep(p) = 1 THEN FsRoot ELSE SubSeq(p, 1, LastSep(p) - 1)

Join(d, name) == IF d = FsRoot THEN d \o name ELSE d \o <<"/">> \o name

RECURSIVE Nest(_)
Nest(n) == IF n = 0 THEN rootPath ELSE Join(Nest(n - 1), <<"p">>)

Dirs == {FsRoot, SiblingPath} \cup {Nest(n) : n \in 0..MaxDepth}

CargoFiles == {Join(d, CargoToml) : d \in Dirs}

Docs == {Join(d, <<"l">>) : d \in Dirs}

Calls == {1, 2}

(* Error messages *)

NoError == ""
ENoActiveDocument == "No active document"
ENotInWorkspace == "Current document not in the workspace"
ENotFound == "Cargo.toml hasn't been found"
ENotFoundWithin == "Cargo.toml hasn't been found within the workspace"

----------------------------------------------------------------------------
(* One cwd() invocation.  p1, p2, p3 are the states of the promises of the  *)
(* three strategies: "none" (never created), "pending", "ok", "fail".       *)
(* error is the rejection reason of the first promise, error2 that of the   *)
(* second (the `error' parameter of the second catch), reason that of the   *)
(* promise cwd() returns.                                                   *)

IdleCall ==
    [pc |-> "idle", fileName |-> None, dir |-> None, found |-> None,
     newCwd |-> None, error |-> NoError, error2 |-> NoError, checked |-> None,
     existsPrev |-> FALSE, existsWs |-> FALSE,
     p1 |-> "none", p2 |-> "none", p3 |-> "none",
     result |-> None, reason |-> NoError,
     prev0 |-> None, stable |-> TRUE, diskStable |-> TRUE,
     twin |-> None, lastDoc |-> None]

Settled(r) == r.pc \in {"resolved", "rejected"}

Active(r) == r.pc \notin {"idle", "resolved", "rejected"}

checkPathExists(path) == path \in files

(* getRustcSysroot: proc is the spawned process ("none", "running",        *)
(* "failed" once 'error' was emitted, "exited" once 'exit' was), out what   *)
(* it has written, got what the stdout stream has buffered of that, promise *)
(* the returned promise, threw whether a listener threw.                    *)
NoSysroot ==
    [proc |-> "none", out |-> <<>>, got |-> <<>>, code |-> 0, errored |-> FALSE,
     promise |-> "none", value |-> <<>>, spawns |-> 0, threw |-> FALSE]

Init ==
    /\ rustc = NoSysroot
    /\ files \in SUBSET CargoFiles
    /\ activeDoc \in Docs \cup {None}
    /\ previousCwd = None
    /\ calls = [c \in Calls |-> IdleCall]

----------------------------------------------------------------------------
(* getCwdFromActiveTextEditor, run synchronously by cwd()                   *)
(* A fresh record notes previousCwd as the call finds it (prev0) and, in    *)
(* twin, what the slot's preceding call returned if that call resolved      *)
(* through the active document and nothing has changed since it began;      *)
(* lastDoc is what the most recent call that resolved through the active    *)
(* document returned, None when there was none.                             *)

NewCall(old) ==
    [IdleCall EXCEPT !.prev0 = previousCwd,
                     !.twin = IF old.pc = "resolved" /\ old.p1 = "ok" /\ old.stable
                              THEN old.result ELSE None,
                     !.lastDoc = IF old.pc = "resolved" /\ old.p1 = "ok"
                                 THEN old.result ELSE old.lastDoc]

(* variant: the search starts above the document's directory *)
FindUpStartAbove(fileName) == Dirname(Dirname(fileName))

FindUpStart(fileName) == Dirname(fileName)

getCwdFromActiveTextEditor(r) ==
    IF activeDoc = None
    THEN [r EXCEPT !.pc = "catch1", !.p1 = "fail", !.error = ENoActiveDocument]
    ELSE IF ~StartsWith(activeDoc, rootPath)
    THEN [r EXCEPT !.pc = "catch1", !.p1 = "fail", !.error = ENotInWorkspace,
                   !.fileName = activeDoc]
    ELSE [r EXCEPT !.pc = "findUp", !.p1 = "pending", !.fileName = activeDoc,
                   !.dir = FindUpStart(activeDoc)]

Cwd(c) ==
    /\ ~Active(calls[c])
    /\ calls' = [calls EXCEPT ![c] =
                    getCwdFromActiveTextEditor(NewCall(calls[c]))]
    /\ UNCHANGED <<files, activeDoc, previousCwd, rustc>>

(* find-up: one directory is probed per step, from cwd up to the filesystem *)
(* root; it answers the path of the file found, or null.                    *)
findUp(r) ==
    IF checkPathExists(Join(r.dir, CargoToml))
    THEN [r EXCEPT !.pc = "findUpThen", !.found = Join(r.dir, CargoToml)]
    ELSE IF r.dir = FsRoot
    THEN [r EXCEPT !.pc = "findUpThen", !.found = None]
    ELSE [r EXCEPT !.dir = Dirname(r.dir)]

FindUp(c) ==
    /\ calls[c].pc = "findUp"
    /\ calls' = [calls EXCEPT ![c] = findUp(calls[c])]
    /\ UNCHANGED <<files, activeDoc, previousCwd, rustc>>

(* variant: the two rejections carry each other's message *)
findCargoTomlUpToWorkspaceSwapped(r) ==
    IF r.found = None
    THEN [r EXCEPT !.pc = "catch1", !.p1 = "fail", !.error = ENotFoundWithin]
    ELSE IF ~StartsWith(r.found, rootPath)
    THEN [r EXCEPT !.pc = "catch1", !.p1 = "fail", !.error = ENotFound]
    ELSE [r EXCEPT !.pc = "cwdThen", !.p1 = "ok", !.newCwd = Dirname(r.found)]

findCargoTomlUpToWorkspace(r) ==
    IF r.found = None
    THEN [r EXCEPT !.pc = "catch1", !.p1 = "fail", !.error = ENotFound]
    ELSE IF ~StartsWith(r.found, rootPath)
    THEN [r EXCEPT !.pc = "catch1", !.p1 = "fail", !.error = ENotFoundWithin]
    ELSE [r EXCEPT !.pc = "cwdThen", !.p1 = "ok", !.newCwd = Dirname(r.found)]

FindUpThen(c) ==
    /\ calls[c].pc = "findUpThen"
    /\ calls' = [calls EXCEPT ![c] = findCargoTomlUpToWorkspace(calls[c])]
    /\ UNCHANGED <<files, activeDoc, previousCwd, rustc>>

(* cwd(): .then(newCwd => { previousCwd = newCwd; return newCwd; })         *)
(* variant: the handler returns what was remembered before the assignment *)
CwdThenReturnOld(r) == r.prev0

CwdThenReturn(r) == r.newCwd

(* variant: the path of Cargo.toml is remembered instead of its directory *)
CwdThenStoreFile(r) == r.found

CwdThenStore(r) == r.newCwd

CwdThen(c) ==
    /\ calls[c].pc = "cwdThen"
    /\ previousCwd' = CwdThenStore(calls[c])
    /\ calls' = [calls EXCEPT ![c] =
                    [@ EXCEPT !.pc = "resolved", !.result = CwdThenReturn(calls[c])]]
    /\ UNCHANGED <<files, activeDoc, rustc>>

(* cwd(): first .catch(error => getPreviousCwd(error)), up to the start of  *)
(* checkPathExists                                                          *)
(* variant: without a previous cwd the chain gives up at once *)
getPreviousCwdGivesUp(r) ==
    IF previousCwd = None
    THEN [r EXCEPT !.pc = "rejected", !.p2 = "fail", !.error2 = r.error,
                   !.reason = r.error]
    ELSE [r EXCEPT !.pc = "accessPrev", !.p2 = "pending",
                   !.checked = Join(previousCwd, CargoToml)]

getPreviousCwd(r) ==
    IF previousCwd = None
    THEN [r EXCEPT !.pc = "catch2", !.p2 = "fail", !.error2 = r.error]
    ELSE [r EXCEPT !.pc = "accessPrev", !.p2 = "pending",
                   !.checked = Join(previousCwd, CargoToml)]

CwdCatch1(c) ==
    /\ calls[c].pc = "catch1"
    /\ calls' = [calls EXCEPT ![c] = getPreviousCwd(calls[c])]
    /\ UNCHANGED <<files, activeDoc, previousCwd, rustc>>

(* fs.access answers for pathToCargoTomlInPreviousCwd                       *)
(* variant: Cargo.toml is looked for in the previous cwd and above it *)
AccessPrevUpward(c) ==
    /\ calls[c].pc = "accessPrev"
    /\ calls' = [calls EXCEPT ![c] =
                    [@ EXCEPT !.pc = "prevThen",
                              !.existsPrev =
                                  \E d \in Dirs :
                                      /\ \/ d = Dirname(calls[c].checked)
                                         \/ StartsWith(Dirname(calls[c].checked), Join(d, <<>>))
                                      /\ checkPathExists(Join(d, CargoToml))]]
    /\ UNCHANGED <<files, activeDoc, previousCwd, rustc>>

AccessPrev(c) ==
    /\ calls[c].pc = "accessPrev"
    /\ calls' = [calls EXCEPT ![c] =
                    [@ EXCEPT !.pc = "prevThen",
                              !.existsPrev = checkPathExists(calls[c].checked)]]
    /\ UNCHANGED <<files, activeDoc, previousCwd, rustc>>

(* getPreviousCwd: .then(exists => ...)                                     *)
(* variant: the workspace is tried even though the previous cwd was usable *)
getPreviousCwdThenFallsThrough(r) ==
    IF r.existsPrev
    THEN [r EXCEPT !.pc = "catch2", !.p2 = "ok", !.result = previousCwd]
    ELSE [r EXCEPT !.pc = "catch2", !.p2 = "fail", !.error2 = r.error]

(* variant: a stale previous cwd is reported with an error of its own *)
getPreviousCwdThenOwnError(r) ==
    IF r.existsPrev
    THEN [r EXCEPT !.pc = "resolved", !.p2 = "ok", !.result = previousCwd]
    ELSE [r EXCEPT !.pc = "catch2", !.p2 = "fail",
                   !.error2 = "Previous cwd has no Cargo.toml"]

(* variant: a stale previous cwd makes the strategy start over *)
getPreviousCwdThenRetry(r) ==
    IF r.existsPrev
    THEN [r EXCEPT !.pc = "resolved", !.p2 = "ok", !.result = previousCwd]
    ELSE [r EXCEPT !.pc = "catch1", !.p2 = "none"]

(* variant: the test of `exists' is inverted *)
getPreviousCwdThenInverted(r) ==
    IF ~r.existsPrev
    THEN [r EXCEPT !.pc = "resolved", !.p2 = "ok", !.result = previousCwd]
    ELSE [r EXCEPT !.pc = "catch2", !.p2 = "fail", !.error2 = r.error]

(* variant: the answer of the existence check is ignored *)
getPreviousCwdThenUnchecked(r) ==
    [r EXCEPT !.pc = "resolved", !.p2 = "ok", !.result = previousCwd]

getPreviousCwdThen(r) ==
    IF r.existsPrev
    THEN [r EXCEPT !.pc = "resolved", !.p2 = "ok", !.result = previousCwd]
    ELSE [r EXCEPT !.pc = "catch2", !.p2 = "fail", !.error2 = r.error]

(* variant: a stale previous cwd is forgotten *)
PrevThenStoreForgets(r) == IF r.existsPrev THEN previousCwd ELSE None

PrevThenStore(r) == previousCwd

PrevThen(c) ==
    /\ calls[c].pc = "prevThen"
    /\ calls' = [calls EXCEPT ![c] = getPreviousCwdThen(calls[c])]
    /\ previousCwd' = PrevThenStore(calls[c])
    /\ UNCHANGED <<files, activeDoc, rustc>>

(* cwd(): second .catch(error => checkWorkspaceCanBeUsedAsCwd()...)         *)
checkWorkspaceCanBeUsedAsCwd(r) ==
    [r EXCEPT !.pc = "accessWs", !.p3 = "pending"]

CwdCatch2(c) ==
    /\ calls[c].pc = "catch2"
    /\ calls' = [calls EXCEPT ![c] = checkWorkspaceCanBeUsedAsCwd(calls[c])]
    /\ UNCHANGED <<files, activeDoc, previousCwd, rustc>>

AccessWs(c) ==
    /\ calls[c].pc = "accessWs"
    /\ calls' = [calls EXCEPT ![c] =
                    [@ EXCEPT !.pc = "wsThen",
                              !.existsWs = checkPathExists(Join(rootPath, CargoToml))]]
    /\ UNCHANGED <<files, activeDoc, previousCwd, rustc>>

(* cwd(): .then(canBeUsed => ...) of the second catch                       *)
(* variant: the path that was checked is returned instead of the workspace *)
CwdWsThenFilePath(r) ==
    IF r.existsWs
    THEN [r EXCEPT !.pc = "resolved", !.p3 = "ok", !.result = Join(rootPath, CargoToml)]
    ELSE [r EXCEPT !.pc = "rejected", !.p3 = "fail", !.reason = r.error2]

(* variant: the test of `canBeUsed' is inverted *)
CwdWsThenInverted(r) ==
    IF ~r.existsWs
    THEN [r EXCEPT !.pc = "resolved", !.p3 = "ok", !.result = rootPath]
    ELSE [r EXCEPT !.pc = "rejected", !.p3 = "fail", !.reason = r.error2]

CwdWsThen(r) ==
    IF r.existsWs
    THEN [r EXCEPT !.pc = "resolved", !.p3 = "ok", !.result = rootPath]
    ELSE [r EXCEPT !.pc = "rejected", !.p3 = "fail", !.reason = r.error2]

(* variant: a usable workspace is remembered as the previous cwd *)
WsThenStoreRemembers(r) == IF r.existsWs THEN rootPath ELSE previousCwd

WsThenStore(r) == previousCwd

WsThen(c) ==
    /\ calls[c].pc = "wsThen"
    /\ calls' = [calls EXCEPT ![c] = CwdWsThen(calls[c])]
    /\ previousCwd' = WsThenStore(calls[c])
    /\ UNCHANGED <<files, activeDoc, rustc>>

----------------------------------------------------------------------------
(* The environment: the disk and the focused editor change at any time.    *)
(* A call record is `stable' while neither changed since the call began,   *)
(* `diskStable' while the disk did not.                                     *)

Disturb == [c \in Calls |-> IF calls[c].pc = "idle" THEN calls[c]
                            ELSE [calls[c] EXCEPT !.stable = FALSE]]

DisturbDisk == [c \in Calls |-> IF calls[c].pc = "idle" THEN calls[c]
                                ELSE [calls[c] EXCEPT !.stable = FALSE,
                                                      !.diskStable = FALSE]]

CreateFile ==
    \E f \in CargoFiles \ files :
        /\ files' = files \cup {f}
        /\ calls' = DisturbDisk
        /\ UNCHANGED <<activeDoc, previousCwd, rustc>>

DeleteFile ==
    \E f \in files :
        /\ files' = files \ {f}
        /\ calls' = DisturbDisk
        /\ UNCHANGED <<activeDoc, previousCwd, rustc>>

ChangeActiveTextEditor ==
    \E d \in (Docs \cup {None}) \ {activeDoc} :
        /\ activeDoc' = d
        /\ calls' = Disturb
        /\ UNCHANGED <<files, previousCwd, rustc>>

----------------------------------------------------------------------------
Step(c) ==
    \/ FindUp(c)
    \/ FindUpThen(c)
    \/ CwdThen(c)
    \/ CwdCatch1(c)
    \/ AccessPrev(c)
    \/ PrevThen(c)
    \/ CwdCatch2(c)
    \/ AccessWs(c)
    \/ WsThen(c)

(* Spec: a single logical caller; its calls follow one another in slot 1   *)
Caller == CHOOSE c \in Calls : \A d \in Calls : c <= d

CwdAlone == Cwd(Caller)

Next ==
    \/ CwdAlone
    \/ \E c \in Calls : Step(c)
    \/ CreateFile
    \/ DeleteFile
    \/ ChangeActiveTextEditor

Spec == Init /\ [][Next]_vars

(* FairSpec: the single caller of Spec, with every collaborator answering   *)
(* and every promise callback run in the end.                               *)
FairSpec == Spec /\ \A c \in Calls : WF_vars(Step(c))

(* SpecOverlap: cwd() is called again while an earlier call is still      *)
(* running.  The records of these calls carry no notes about the calls      *)
(* before them or about a quiet environment: they start as not stable.      *)
(* The disk stays as Init found it; the focused editor changes.             *)
UntrackedCall == [IdleCall EXCEPT !.stable = FALSE, !.diskStable = FALSE]

CwdOverlap(c) ==
    /\ ~Active(calls[c])
    /\ calls' = [calls EXCEPT ![c] = getCwdFromActiveTextEditor(UntrackedCall)]
    /\ UNCHANGED <<files, activeDoc, previousCwd, rustc>>

NextOverlap ==
    \/ \E c \in Calls : CwdOverlap(c)
    \/ \E c \in Calls : Step(c)
    \/ ChangeActiveTextEditor

SpecOverlap == Init /\ [][NextOverlap]_vars

----------------------------------------------------------------------------
(* getRustcSysroot                                                          *)

OutputChars == {"s", " ", "\n"}
Whitespace == {" ", "\n"}
ExitCodes == {0, 1}

RECURSIVE TrimStart(_)
TrimStart(t) == IF t # <<>> /\ Head(t) \in Whitespace THEN TrimStart(Tail(t)) ELSE t

RECURSIVE TrimEnd(_)
TrimEnd(t) ==
    IF t # <<>> /\ t[Len(t)] \in Whitespace THEN TrimEnd(SubSeq(t, 1, Len(t) - 1)) ELSE t

Trim(t) == TrimEnd(TrimStart(t))

(* resolve and reject act on a pending promise only *)
Resolve(r, v) ==
    IF r.promise = "pending" THEN [r EXCEPT !.promise = "resolved", !.value = v] ELSE r

Reject(r) ==
    IF r.promise = "pending" THEN [r EXCEPT !.promise = "rejected"] ELSE r

(* cp.spawn('rustc', ['--print', 'sysroot']) and new Promise(...)           *)
GetRustcSysroot ==
    /\ rustc.proc # "running"
    /\ rustc' = [NoSysroot EXCEPT !.proc = "running", !.promise = "pending", !.spawns = 1]
    /\ UNCHANGED <<files, activeDoc, previousCwd, calls>>

(* the process writes to its standard output *)
RustcWrite ==
    /\ rustc.proc = "running"
    /\ Len(rustc.out) < MaxOutput
    /\ \E ch \in OutputChars : rustc' = [rustc EXCEPT !.out = Append(@, ch)]
    /\ UNCHANGED <<files, activeDoc, previousCwd, calls>>

(* the stdout stream buffers what has arrived on the pipe *)
StdoutBuffer ==
    /\ rustc.proc = "running"
    /\ Len(rustc.got) < Len(rustc.out)
    /\ rustc' = [rustc EXCEPT !.got = SubSeq(rustc.out, 1, Len(@) + 1)]
    /\ UNCHANGED <<files, activeDoc, previousCwd, calls>>

(* spawnedProcess.on('error', ...): the process could not be started        *)
OnError ==
    /\ rustc.proc = "running"
    /\ rustc.out = <<>>
    /\ rustc' = Reject([rustc EXCEPT !.proc = "failed", !.errored = TRUE])
    /\ UNCHANGED <<files, activeDoc, previousCwd, calls>>

(* spawnedProcess.on('exit', code => ...): stdout.read() answers null when  *)
(* the stream has buffered nothing, and null.toString() throws              *)
OnExitHandler(r, code) ==
    IF code = 0
    THEN IF r.got = <<>>
         THEN [r EXCEPT !.threw = TRUE]
         ELSE Resolve(r, Trim(r.got))
    ELSE Reject(r)

OnExit ==
    /\ rustc.proc \in {"running", "failed"}
    /\ \E code \in ExitCodes :
          /\ rustc.proc = "failed" => code # 0
          /\ rustc' = OnExitHandler([rustc EXCEPT !.proc = "exited", !.code = code], code)
    /\ UNCHANGED <<files, activeDoc, previousCwd, calls>>

InitSysroot == Init /\ files = {} /\ activeDoc = None

NextSysroot ==
    \/ GetRustcSysroot
    \/ RustcWrite
    \/ StdoutBuffer
    \/ OnError
    \/ OnExit

SpecSysroot == InitSysroot /\ [][NextSysroot]_vars

----------------------------------------------------------------------------
(* Vocabulary of the properties *)

HasMarker(d) == Join(d, CargoToml) \in files

(* a is d or a directory above d, segment by segment *)
AtOrAbove(a, d) == a = d \/ StartsWith(d, Join(a, <<>>))

(* p is the workspace root or lies below it, segment by segment *)
InsideWorkspace(p) == AtOrAbove(rootPath, p)

(* r is the nearest directory at or above start that holds the marker *)
Nearest(r, start) ==
    /\ HasMarker(r)
    /\ AtOrAbove(r, start)
    /\ \A d \in Dirs : HasMarker(d) /\ AtOrAbove(d, start) => AtOrAbove(d, r)

Errors == {ENoActiveDocument, ENotInWorkspace, ENotFound, ENotFoundWithin}

----------------------------------------------------------------------------
(* C1: within one cwd() call the strategies run in the order active         *)
(* document, previous cwd, workspace: the second is started only after the  *)
(* first has failed, the third only after the first two have failed, the    *)
(* marker checks of the second and third are made only then, and a resolved *)
(* call took its result from its first successful strategy.                 *)
C1_StrategyOrder ==
    \A c \in Calls :
        LET r == calls[c] IN
        /\ r.p2 # "none" => r.p1 = "fail"
        /\ r.p3 # "none" => r.p1 = "fail" /\ r.p2 = "fail"
        /\ r.pc \in {"accessPrev", "prevThen"} => r.p1 = "fail" /\ r.p2 = "pending"
        /\ r.pc \in {"accessWs", "wsThen"} => r.p1 = "fail" /\ r.p2 = "fail"
        /\ r.pc = "resolved" =>
              \/ r.p1 = "ok" /\ r.p2 = "none" /\ r.p3 = "none" /\ r.result = r.newCwd
              \/ r.p1 = "fail" /\ r.p2 = "ok" /\ r.p3 = "none" /\ r.result = r.prev0
              \/ r.p1 = "fail" /\ r.p2 = "fail" /\ r.p3 = "ok" /\ r.result = rootPath

C1_Witness ==
    \E c \in Calls :
        /\ calls[c].pc = "resolved"
        /\ calls[c].p3 = "ok"
        /\ calls[c].checked # None

(* C2: a settled cwd() call is rejected exactly when the active-document    *)
(* strategy failed, the previous cwd is undefined or has no Cargo.toml      *)
(* directly in it, and the workspace root has no Cargo.toml directly in it; *)
(* otherwise it resolved to a directory.  The disk is read as it stood      *)
(* throughout the call (stable), and as the call's own checks saw it.       *)
C2_RejectsIffAllFail ==
    \A c \in Calls :
        LET r == calls[c] IN
        Settled(r) =>
            /\ r.pc = "rejected" <=>
                  /\ r.p1 = "fail"
                  /\ r.prev0 = None \/ ~r.existsPrev
                  /\ ~r.existsWs
            /\ r.stable =>
                  (r.pc = "rejected" <=>
                      /\ r.p1 = "fail"
                      /\ r.prev0 = None \/ ~HasMarker(r.prev0)
                      /\ ~HasMarker(rootPath))
            /\ r.pc = "resolved" => r.result \in Dirs

C2_Witness ==
    \E c \in Calls :
        /\ calls[c].pc = "rejected"
        /\ calls[c].stable
        /\ calls[c].prev0 # None
        /\ calls[c].fileName # None

(* C3: the reason a rejected cwd() call carries is the error with which     *)
(* the active-document strategy of that call failed; with no active editor  *)
(* it is 'No active document'.                                              *)
C3_FirstErrorSurfaces ==
    \A c \in Calls :
        LET r == calls[c] IN
        r.pc = "rejected" =>
            /\ r.reason = r.error
            /\ r.reason \in Errors
            /\ r.fileName = None <=> r.reason = ENoActiveDocument
            /\ r.stable /\ activeDoc = None => r.reason = ENoActiveDocument

C3_Witness ==
    \E c \in Calls :
        /\ calls[c].pc = "rejected"
        /\ calls[c].reason = ENotFoundWithin
        /\ calls[c].prev0 # None

(* C4: previousCwd is written only by the success of the active-document    *)
(* strategy: while a call has not resolved through that strategy, and after *)
(* it resolved through another or was rejected, previousCwd is what it was  *)
(* when the call began.                                                     *)
C4_OnlyDocumentStrategyWrites ==
    \A c \in Calls :
        LET r == calls[c] IN
        (r.pc # "idle" /\ ~(r.pc = "resolved" /\ r.p1 = "ok")) => previousCwd = r.prev0

C4_Witness ==
    \E c \in Calls :
        /\ calls[c].pc = "resolved"
        /\ calls[c].p3 = "ok"
        /\ calls[c].prev0 \notin {None, rootPath}

(* C5: a call that resolved through the active-document strategy for a      *)
(* document inside the workspace, the disk unchanged since it began,        *)
(* returned the nearest directory at or above the document's directory that *)
(* holds Cargo.toml, and previousCwd is that directory.                     *)
C5_NearestMarkerRemembered ==
    \A c \in Calls :
        LET r == calls[c] IN
        (r.pc = "resolved" /\ r.p1 = "ok" /\ r.stable /\ InsideWorkspace(r.fileName)) =>
            /\ Nearest(r.result, Dirname(r.fileName))
            /\ previousCwd = r.result

C5_Witness ==
    \E c \in Calls :
        LET r == calls[c] IN
        /\ r.pc = "resolved" /\ r.p1 = "ok" /\ r.stable
        /\ InsideWorkspace(r.fileName)
        /\ r.result # rootPath
        /\ HasMarker(rootPath)
        /\ r.prev0 \notin {None, r.result}

(* C6: when the active-document strategy failed, a previous cwd was set and *)
(* Cargo.toml was found directly in it, the call returns that previous cwd, *)
(* previousCwd stays as it was and the workspace strategy is never started. *)
C6_RememberedRootReused ==
    \A c \in Calls :
        LET r == calls[c] IN
        /\ (r.p1 = "fail" /\ r.prev0 # None /\ r.existsPrev) =>
              /\ r.pc \in {"prevThen", "resolved"}
              /\ r.p3 = "none"
              /\ previousCwd = r.prev0
              /\ r.pc = "resolved" => r.result = r.prev0
        /\ (Settled(r) /\ r.stable /\ r.p1 = "fail" /\ r.prev0 # None
                /\ HasMarker(r.prev0)) =>
              /\ r.pc = "resolved"
              /\ r.result = r.prev0
              /\ r.p3 = "none"
              /\ previousCwd = r.prev0

C6_Witness ==
    \E c \in Calls :
        /\ calls[c].pc = "resolved"
        /\ calls[c].p2 = "ok"
        /\ calls[c].error = ENotInWorkspace
        /\ calls[c].stable

(* C7: when the active-document strategy failed and the previous cwd is set *)
(* but Cargo.toml was not found directly in it, the previous-cwd strategy   *)
(* fails and the workspace strategy decides: the workspace root if          *)
(* Cargo.toml is directly there, otherwise rejection; on an unchanged disk  *)
(* the previous cwd is not what the call returns.                           *)
C7_StaleRememberedRootSkipped ==
    \A c \in Calls :
        LET r == calls[c] IN
        (Settled(r) /\ r.p1 = "fail" /\ r.prev0 # None /\ ~r.existsPrev) =>
            /\ r.p2 = "fail"
            /\ r.p3 \in {"ok", "fail"}
            /\ r.existsWs => r.pc = "resolved" /\ r.result = rootPath
            /\ ~r.existsWs => r.pc = "rejected"
            /\ r.stable => ~HasMarker(r.prev0) /\ r.result # r.prev0

C7_Witness ==
    \E c \in Calls :
        LET r == calls[c] IN
        /\ r.pc = "resolved" /\ r.p1 = "fail" /\ r.p2 = "fail"
        /\ r.prev0 # None /\ ~r.existsPrev
        /\ r.stable

(* C8: when the active-document and previous-cwd strategies both failed and *)
(* Cargo.toml is directly in the workspace root, the call returns exactly   *)
(* the workspace root; so it does with no active editor and no previous cwd.*)
C8_WorkspaceRootFallback ==
    \A c \in Calls :
        LET r == calls[c] IN
        /\ (Settled(r) /\ r.p1 = "fail" /\ r.p2 = "fail" /\ r.existsWs) =>
              r.pc = "resolved" /\ r.result = rootPath
        /\ (Settled(r) /\ r.stable /\ r.p1 = "fail" /\ r.p2 = "fail"
                /\ HasMarker(rootPath)) =>
              r.pc = "resolved" /\ r.result = rootPath
        /\ (Settled(r) /\ r.stable /\ activeDoc = None /\ r.prev0 = None
                /\ HasMarker(rootPath)) =>
              r.pc = "resolved" /\ r.result = rootPath

C8_Witness ==
    \E c \in Calls :
        LET r == calls[c] IN
        /\ r.pc = "resolved" /\ r.p3 = "ok"
        /\ r.error = ENoActiveDocument
        /\ r.prev0 = None
        /\ r.stable

(* C9: of two consecutive calls with the same active document and the same  *)
(* disk that both resolve through the active-document strategy, the second  *)
(* returns the directory the first returned, and after either of them       *)
(* previousCwd is the directory returned.                                   *)
C9_RepeatedSuccessAgrees ==
    \A c \in Calls :
        LET r == calls[c] IN
        (r.pc = "resolved" /\ r.p1 = "ok") =>
            /\ previousCwd = r.result
            /\ (r.stable /\ r.twin # None) => r.result = r.twin

C9_Witness ==
    \E c \in Calls :
        LET r == calls[c] IN
        /\ r.pc = "resolved" /\ r.p1 = "ok" /\ r.stable
        /\ r.twin # None
        /\ r.result # rootPath

(* C10: previousCwd is undefined initially and, once defined, stays         *)
(* defined: every step leaves it alone or replaces it with a directory.     *)
C10_NeverCleared ==
    /\ previousCwd = None
    /\ [][/\ previousCwd # None => previousCwd' # None
          /\ previousCwd' # previousCwd => previousCwd' \in Dirs]_vars

C10_Witness ==
    \E c \in Calls :
        /\ previousCwd # None
        /\ calls[c].pc = "rejected"
        /\ calls[c].checked # None

(* C11: with calls that do not overlap, when a call has completed           *)
(* previousCwd is undefined if no call so far resolved through the active   *)
(* document, and otherwise is the directory returned by the most recent     *)
(* call that did.                                                           *)
C11_RemembersLatestDocumentRoot ==
    \A c \in Calls :
        LET r == calls[c] IN
        Settled(r) =>
            previousCwd = IF r.pc = "resolved" /\ r.p1 = "ok" THEN r.result ELSE r.lastDoc

C11_Witness ==
    \E c \in Calls :
        LET r == calls[c] IN
        /\ r.pc = "resolved" /\ r.p3 = "ok"
        /\ r.lastDoc \notin {None, rootPath}
        /\ r.twin = None

(* the message of the first test of the active-document strategy that the  *)
(* call's document and search result do not pass                            *)
FirstFailure(r) ==
    IF r.fileName = None THEN ENoActiveDocument
    ELSE IF ~StartsWith(r.fileName, rootPath) THEN ENotInWorkspace
    ELSE IF r.found = None THEN ENotFound
    ELSE IF ~StartsWith(r.found, rootPath) THEN ENotFoundWithin
    ELSE NoError

C13_ResultInsideWorkspace ==
    /\ \A c \in Calls :
          (calls[c].pc = "resolved" /\ calls[c].p1 = "ok") =>
              InsideWorkspace(calls[c].result)
    /\ previousCwd # None => InsideWorkspace(previousCwd)

(* C14: the upward search of the active-document strategy stays within the *)
(* workspace root: for a document inside the workspace, every directory it  *)
(* probes for Cargo.toml is the workspace root or a directory below it.     *)
C14_SearchBoundedToWorkspace ==
    \A c \in Calls :
        (calls[c].pc = "findUp" /\ InsideWorkspace(calls[c].fileName)) =>
            InsideWorkspace(calls[c].dir)

(* C15: also when two cwd() calls overlap, a call that resolves through the *)
(* previous-cwd strategy returns the directory whose Cargo.toml it checked: *)
(* the path it checked is Cargo.toml directly in the directory it returns.  *)
C15_ReturnsCheckedDirectory ==
    \A c \in Calls :
        (calls[c].pc = "resolved" /\ calls[c].p2 = "ok") =>
            calls[c].checked = Join(calls[c].result, CargoToml)

(* C16: the previous-cwd strategy checks only for Cargo.toml directly in    *)
(* the previous cwd: it succeeds exactly when that file exists, also when a *)
(* Cargo.toml exists in a directory above, and the only directory it ever   *)
(* returns is the previous cwd.                                             *)
C16_DirectCheckOnly ==
    \A c \in Calls :
        LET r == calls[c] IN
        /\ r.p2 \in {"pending", "ok"} => r.checked = Join(r.prev0, CargoToml)
        /\ r.p2 = "ok" => r.existsPrev /\ r.result = r.prev0
        /\ (r.p2 \in {"ok", "fail"} /\ r.prev0 # None /\ r.diskStable) =>
              (r.p2 = "ok" <=> HasMarker(r.prev0))

C16_Witness ==
    \E c \in Calls :
        LET r == calls[c] IN
        /\ r.p2 = "fail" /\ r.prev0 # None /\ r.diskStable
        /\ \E d \in Dirs : d # r.prev0 /\ AtOrAbove(d, r.prev0) /\ HasMarker(d)

(* C17: when the disk did not change during a call that does not overlap    *)
(* another, the directory the call resolves to, by whichever strategy,      *)
(* holds Cargo.toml directly at the moment the call resolves and for as     *)
(* long as the disk stays unchanged.                                        *)
C17_ResultHoldsMarker ==
    \A c \in Calls :
        (calls[c].pc = "resolved" /\ calls[c].diskStable) => HasMarker(calls[c].result)

C17_Witness ==
    \E c \in Calls :
        LET r == calls[c] IN
        /\ r.pc = "resolved" /\ r.diskStable /\ ~r.stable
        /\ r.p1 = "ok"
        /\ r.fileName # activeDoc

(* C18: a cwd() call that has started settles in the end, provided the      *)
(* upward search and the existence checks answer; once settled its outcome  *)
(* does not change; and within a call no strategy is run a second time: a   *)
(* strategy that has succeeded or failed stays so, one begun is not reset.  *)
C18_SettlesExactlyOnce ==
    /\ \A c \in Calls : Active(calls[c]) ~> Settled(calls[c])
    /\ [][\A c \in Calls :
            /\ (Settled(calls[c]) /\ calls'[c].pc \in {"idle", "resolved", "rejected"}) =>
                  /\ calls'[c].pc = calls[c].pc
                  /\ calls'[c].result = calls[c].result
                  /\ calls'[c].reason = calls[c].reason
            /\ Active(calls[c]) =>
                  /\ calls'[c].pc # "idle"
                  /\ calls[c].p1 \in {"ok", "fail"} => calls'[c].p1 = calls[c].p1
                  /\ calls[c].p2 \in {"ok", "fail"} => calls'[c].p2 = calls[c].p2
                  /\ calls[c].p3 \in {"ok", "fail"} => calls'[c].p3 = calls[c].p3
                  /\ calls[c].p1 # "none" => calls'[c].p1 # "none"
                  /\ calls[c].p2 # "none" => calls'[c].p2 # "none"
                  /\ calls[c].p3 # "none" => calls'[c].p3 # "none"]_vars

C18_Witness ==
    \E c \in Calls :
        LET r == calls[c] IN
        /\ r.pc = "rejected"
        /\ r.dir = FsRoot /\ r.found = None
        /\ r.checked # None
        /\ r.p1 = "fail" /\ r.p2 = "fail" /\ r.p3 = "fail"

(* C19: getRustcSysroot spawns rustc once and its promise settles once the  *)
(* process has ended: resolved, with what stdout captured trimmed of        *)
(* surrounding whitespace, only when the process exited with status 0, and  *)
(* it does resolve then; rejected when the process could not be started or  *)
(* exited with another status.                                              *)
C19_SysrootSettlesOnce ==
    /\ rustc.proc # "none" => rustc.spawns = 1
    /\ rustc.promise = "resolved" =>
          /\ rustc.proc = "exited" /\ rustc.code = 0
          /\ rustc.value = Trim(rustc.got)
    /\ rustc.errored => rustc.promise = "rejected"
    /\ (rustc.proc = "exited" /\ rustc.code # 0) => rustc.promise = "rejected"
    /\ (rustc.proc = "exited" /\ rustc.code = 0 /\ ~rustc.errored) =>
          rustc.promise = "resolved"

TypeOK ==
    /\ files \subseteq CargoFiles
    /\ activeDoc \in Docs \cup {None}
    /\ previousCwd \in Dirs \cup {None}
====
